---- MODULE Spec2Model ----
(***************************************************************************)
(* A model of miniquad's file-access layer, src/src/fs.rs: the public      *)
(* calls load_file / read_file / save_file, the synchronous adapters       *)
(* (desktop, android, ios) and the deferred wasm bridge (the FILES table,  *)
(* wasm::load_file and the notification entry point file_loaded).          *)
(*                                                                         *)
(* The build target is fixed in the initial state (the cfg attributes pick *)
(* one backend at build time).  What the outside world answers (the file   *)
(* system, the native primitives, the host runtime) is drawn from small    *)
(* sets in the actions.  A panic ends the run: pc = "panicked".            *)
(***************************************************************************)
EXTENDS Integers, Sequences, FiniteSets, TLC

VARIABLES
    target,     \* the build target: "desktop", "android", "ios" or "wasm"
    FILES,      \* wasm::FILES: request identifier -> stored callback (NoCallback: no entry)
    borrowed,   \* the RefCell around FILES is mutably borrowed
    pc,         \* "idle", "callback" (file_loaded is running a stored callback), "panicked"
    fault,      \* the panic message, "" while none
    cur,        \* the notification being processed: its identifier, the callback taken
                \* from the table and what the runtime answers; NoNote while none
    calls,      \* history: the public calls made so far (operation, path, bytes to save,
                \* identifier answered, outcome); a callback is named by its call's index
    delivered,  \* history: per call, the results its callback was invoked with
    trace,      \* history: the steps taken, in order (primitive calls, table updates, callbacks)
    storage     \* android internal storage: path -> stored bytes (Absent: nothing stored)

vars == <<target, FILES, borrowed, pc, fault, cur, calls, delivered, trace, storage>>

(***************************************************************************)
(* Bounds of the model.                                                    *)
(***************************************************************************)
\* Public calls (load_file, read_file, save_file) per run.
MaxCalls == 3
\* Notifications (file_loaded) per run.
MaxNotes == 2
\* Request identifiers the runtime hands out: 1..MaxId.
MaxId == 2
\* Width of the machine word in bits, scaled down (wasm32 has 32).
WordBits == 8

Targets == {"desktop", "android", "ios", "wasm"}
IDs == 1..MaxId
NoCallback == 0
NoAnswer == [size |-> 0, data |-> <<>>]
NoNote == [id |-> 0, req |-> 0, rt |-> NoAnswer]
Absent == <<-1>>

\* 2^n
RECURSIVE Pow2(_)
Pow2(n) == IF n = 0 THEN 1 ELSE 2 * Pow2(n - 1)

(***************************************************************************)
(* Bytes, paths and contents the outside world can supply.                 *)
(***************************************************************************)
Contents == {<<>>, <<200>>, <<65, 66>>}
PathA == <<97>>
PathNul == <<97, 0, 98>>
Paths == {PathA, PathNul}

(***************************************************************************)
(* Response = Result<Vec<u8>, Error>; save_file's callback takes a bool.   *)
(***************************************************************************)
Ok(bytes) == [ok |-> TRUE, bytes |-> bytes, err |-> ""]
Err(kind) == [ok |-> FALSE, bytes |-> <<>>, err |-> kind]
Saved(success) == [ok |-> success, bytes |-> <<>>, err |-> "bool"]

(***************************************************************************)
(* History records.                                                        *)
(***************************************************************************)
Ev(name, id, req, n) == [ev |-> name, id |-> id, req |-> req, n |-> n]
Call(op, path, data, id, st) ==
    [op |-> op, path |-> path, data |-> data, id |-> id, st |-> st]
NewReq == Len(calls) + 1
Notes == Cardinality({k \in DOMAIN trace : trace[k].ev = "file_loaded"})
CanCall == Len(calls) < MaxCalls
CanNotify == Notes < MaxNotes

\* A conversion that ends the path at its first NUL byte, as C would read it.
CStringTruncated(path) ==
    LET nul == {k \in DOMAIN path : path[k] = 0}
        end == IF nul = {} THEN Len(path) + 1 ELSE CHOOSE k \in nul : \A j \in nul : k <= j
    IN  [ok |-> TRUE, bytes |-> Append(SubSeq(path, 1, end - 1), 0)]

\* std::ffi::CString::new(path): an interior NUL byte is an error, and .unwrap() panics.
CStringNew(path) ==
    IF \E k \in DOMAIN path : path[k] = 0
    THEN [ok |-> FALSE, bytes |-> <<>>]
    ELSE [ok |-> TRUE, bytes |-> Append(path, 0)]

\* A public call that panics: the call is recorded as panicked, its callback is
\* not invoked, and the run ends.
Panic(msg, op, path, id, events) ==
    /\ pc' = "panicked"
    /\ fault' = msg
    /\ calls' = Append(calls, Call(op, path, <<>>, id, "panicked"))
    /\ delivered' = Append(delivered, <<>>)
    /\ trace' = trace \o events \o <<Ev("panic", id, NewReq, 0)>>
    /\ UNCHANGED <<target, FILES, borrowed, cur, storage>>


(***************************************************************************)
(* The deferred bridge: mod wasm.                                          *)
(***************************************************************************)
\* An insert keyed by a counter of the bridge's own instead of the
\* identifier the runtime answered.
HashMapInsertOwnKey(files, k, v) == [files EXCEPT ![((v - 1) % MaxId) + 1] = v]

\* An insert into a table that keeps one entry: whatever else is pending is evicted.
HashMapInsertEvicting(files, k, v) == [i \in IDs |-> IF i = k THEN v ELSE NoCallback]

\* HashMap::insert: the value under k is replaced.
HashMapInsert(files, k, v) == [files EXCEPT ![k] = v]
\* The identifiers with an entry.
Keys(files) == {i \in IDs : files[i] # NoCallback}
\* The lowest identifier with an entry, k when there is none.
FirstKey(files, k) ==
    IF Keys(files) = {} THEN k ELSE CHOOSE i \in Keys(files) : \A j \in Keys(files) : i <= j

\* A removal that takes the table for a queue: the oldest (lowest) entry goes.
HashMapRemoveFirst(files, k) == [files EXCEPT ![FirstKey(files, k)] = NoCallback]
\* A lookup that takes the table for a queue, when k has an entry.
RemovedFirst(files, k) ==
    IF files[k] = NoCallback THEN NoCallback ELSE files[FirstKey(files, k)]

\* A lookup that leaves the entry in the table (get instead of remove).
HashMapPeek(files, k) == files

\* A removal that empties the table (clear in place of remove).
HashMapClear(files, k) == [j \in DOMAIN files |-> NoCallback]

\* HashMap::remove: the entry under k is taken out.
HashMapRemove(files, k) == [files EXCEPT ![k] = NoCallback]

\* What HashMap::remove returns: the callback stored under k (NoCallback: None).
Removed(files, k) == files[k]

\* A conversion that takes a negative length for no bytes at all
\* (usize::try_from(x).unwrap_or(0) in place of `x as usize`).
AsUsizeSaturating(x) == IF x < 0 THEN 0 ELSE x

\* `x as usize` / `x as u32` of an i32 on a target whose word has WordBits bits.
AsUsize(x) == x % Pow2(WordBits)
AsU32(x) == x % Pow2(WordBits)
IsizeMax == Pow2(WordBits - 1) - 1

\* A sentinel test against 0 instead of -1.
IsSentinelZero(file_len) == file_len = 0

\* file_len == -1
IsSentinel(file_len) == file_len = -1

\* Vec::with_capacity(n) in place of vec![0; n]: room for n bytes, none in it.
VecWithCapacity(n) ==
    IF n > IsizeMax
    THEN [ok |-> FALSE, bytes |-> <<>>]
    ELSE [ok |-> TRUE, bytes |-> <<>>]

\* vec![0; n]: n zero bytes; more than isize::MAX bytes is a capacity overflow.
VecZeroed(n) ==
    IF n > IsizeMax
    THEN [ok |-> FALSE, bytes |-> <<>>]
    ELSE [ok |-> TRUE, bytes |-> [k \in 1..n |-> 0]]

\* fs_take_buffer(file_id, ptr, max_size): the runtime copies the bytes it
\* transferred, at most max_size of them, to the start of the buffer.
FsTakeBuffer(buffer, data, max_size) ==
    [k \in 1..Len(buffer) |->
        IF k <= Len(data) /\ k <= max_size THEN data[k] ELSE buffer[k]]

\* What the runtime answers for one notification: the size fs_get_buffer_size
\* reports and the bytes it transferred.
RuntimeAnswers ==
    {[size |-> -2, data |-> <<>>], [size |-> -1, data |-> <<>>]}
        \cup {[size |-> Len(c), data |-> c] : c \in Contents}

\* wasm::load_file(path, on_loaded); file_id is what fs_load_file answers.
WasmLoadFile(path, file_id) ==
    LET r == NewReq
        url == CStringNew(path)
        issued == <<Ev("load_file", 0, r, 0),
                    Ev("fs_load_file", file_id, r, Len(url.bytes) - 1)>>
    IN  IF ~url.ok
        THEN Panic("NulError", "load_file", path, 0, <<Ev("load_file", 0, r, 0)>>)
        ELSE IF borrowed
        THEN Panic("already borrowed: BorrowMutError", "load_file", path, file_id, issued)
        ELSE /\ FILES' = HashMapInsert(FILES, file_id, r)
             /\ calls' = Append(calls, Call("load_file", path, <<>>, file_id, "returned"))
             /\ delivered' = Append(delivered, <<>>)
             /\ trace' = trace \o issued
                    \o <<Ev("insert", file_id, r, 0), Ev("return", file_id, r, 0)>>
             /\ UNCHANGED <<target, borrowed, pc, fault, cur, storage>>

\* A file_loaded that gives up quietly where it should panic
\* (if let Some(..) in place of unwrap_or_else(|| panic!(..))).
NoteIgnored(msg, files, note, events) ==
    /\ trace' = trace \o events
    /\ FILES' = files
    /\ UNCHANGED <<target, borrowed, pc, fault, cur, calls, delivered, storage>>

\* A panic inside file_loaded.
NotePanic(msg, files, note, events) ==
    /\ pc' = "panicked"
    /\ fault' = msg
    /\ FILES' = files
    /\ cur' = note
    /\ trace' = trace \o events \o <<Ev("panic", note.id, note.req, 0)>>
    /\ UNCHANGED <<target, borrowed, calls, delivered, storage>>

\* A file_loaded that looks the callback up, invokes it, and would take the
\* entry out only afterwards: the entry is in the table while the callback runs.
DeliverBeforeRemove(files, note, res, events) ==
    /\ pc' = "callback"
    /\ borrowed' = TRUE
    /\ cur' = note
    /\ delivered' = [delivered EXCEPT ![note.req] = Append(@, res)]
    /\ trace' = trace \o events \o <<Ev("callback", note.id, note.req, 0)>>
    /\ UNCHANGED <<target, FILES, fault, calls, storage>>

\* The stored callback is invoked with res and is now running; the borrow of
\* FILES taken at the top of the closure is still held.
Deliver(files, note, res, events) ==
    /\ pc' = "callback"
    /\ borrowed' = TRUE
    /\ FILES' = files
    /\ cur' = note
    /\ delivered' = [delivered EXCEPT ![note.req] = Append(@, res)]
    /\ trace' = trace \o events \o <<Ev("callback", note.id, note.req, 0)>>
    /\ UNCHANGED <<target, fault, calls, storage>>

\* file_loaded(file_id), up to the invocation of the stored callback; rt is
\* what the runtime answers.
FileLoaded(file_id, rt) ==
    LET enter == <<Ev("file_loaded", file_id, 0, 0)>>
        callback == Removed(FILES, file_id)
        files == HashMapRemove(FILES, file_id)
        note == [id |-> file_id, req |-> callback, rt |-> rt]
        file_len == rt.size
        removed == enter \o <<Ev("remove", file_id, callback, 0),
                              Ev("fs_get_buffer_size", file_id, callback, file_len)>>
        buffer == VecZeroed(AsUsize(file_len))
        copied == removed \o <<Ev("alloc", file_id, callback, AsUsize(file_len)),
                               Ev("fs_take_buffer", file_id, callback, AsU32(file_len))>>
    IN  IF borrowed
        THEN NotePanic("already borrowed: BorrowMutError", FILES, NoNote, enter)
        ELSE IF callback = NoCallback
        THEN NotePanic("Unknown file loaded!", FILES,
                       [id |-> file_id, req |-> NoCallback, rt |-> NoAnswer], enter)
        ELSE IF IsSentinel(file_len)
        THEN Deliver(files, note, Err("DownloadFailed"), removed)
        ELSE IF ~buffer.ok
        THEN NotePanic("capacity overflow", files, note,
                       removed \o <<Ev("alloc", file_id, callback, AsUsize(file_len))>>)
        ELSE Deliver(files, note,
                     Ok(FsTakeBuffer(buffer.bytes, rt.data, AsU32(file_len))), copied)

\* The stored callback returns, and file_loaded with it: the borrow ends.
CallbackReturn ==
    /\ pc = "callback"
    /\ pc' = "idle"
    /\ borrowed' = FALSE
    /\ cur' = NoNote
    /\ trace' = Append(trace, Ev("callback_return", cur.id, cur.req, 0))
    /\ UNCHANGED <<target, FILES, fault, calls, delivered, storage>>


(***************************************************************************)
(* The synchronous adapters.                                               *)
(***************************************************************************)
\* A synchronous adapter that computes its result and returns without
\* invoking the callback.
InvokeAndReturnDropped(op, path, data, res, events) ==
    /\ calls' = Append(calls, Call(op, path, data, 0, "returned"))
    /\ delivered' = Append(delivered, <<>>)
    /\ trace' = trace \o <<Ev(op, 0, NewReq, 0)>> \o events \o <<Ev("return", 0, NewReq, 0)>>
    /\ UNCHANGED <<target, FILES, borrowed, pc, fault, cur>>

\* on_loaded(response) / on_written(success) at the end of a synchronous
\* adapter, and the return of the public call.
InvokeAndReturn(op, path, data, res, events) ==
    /\ calls' = Append(calls, Call(op, path, data, 0, "returned"))
    /\ delivered' = Append(delivered, <<res>>)
    /\ trace' = trace \o <<Ev(op, 0, NewReq, 0)>> \o events
            \o <<Ev("callback", 0, NewReq, 0), Ev("return", 0, NewReq, 0)>>
    /\ UNCHANGED <<target, FILES, borrowed, pc, fault, cur>>

\* What the file system answers: whether File::open succeeds, whether
\* read_to_end succeeds, and the bytes read_to_end appended before it ended.
FsAnswers ==
    {[open |-> FALSE, read |-> FALSE, bytes |-> <<>>]}
        \cup {[open |-> TRUE, read |-> rd, bytes |-> c] : rd \in BOOLEAN, c \in Contents}

\* A load_file_sync that hands over whatever read_to_end appended before it
\* failed (the error of read_to_end ignored in place of `?`).
LoadFileSyncPartial(path, fs) ==
    LET response == fs.bytes
    IN  IF ~(CStringNew(path).ok /\ fs.open) THEN Err("IOError")
        ELSE Ok(response)

\* load_file_desktop's load_file_sync: File::open refuses a path with a NUL
\* byte; either `?` returns the error, converted by From<io::Error>.
LoadFileSyncDesktop(path, fs) ==
    LET response == fs.bytes
    IN  IF ~(CStringNew(path).ok /\ fs.open) THEN Err("IOError")
        ELSE IF ~fs.read THEN Err("IOError")
        ELSE Ok(response)

\* What load_file_sync asks of the file system: File::open (n: 1 opened,
\* 0 refused) and, once opened, read_to_end (id: the bytes appended to
\* response, n: their number, or -1 when it ended in an error).
DesktopEvents(path, fs) ==
    IF ~(CStringNew(path).ok /\ fs.open)
    THEN <<Ev("open", 0, NewReq, 0)>>
    ELSE <<Ev("open", 0, NewReq, 1),
           Ev("read_to_end", Len(fs.bytes), NewReq, IF fs.read THEN Len(fs.bytes) ELSE -1)>>

\* A desktop load that keeps the callback for later and returns.
LoadFileDesktopDeferred(path, fs) ==
    /\ InvokeAndReturnDropped("load_file", path, <<>>, LoadFileSyncDesktop(path, fs),
                              DesktopEvents(path, fs))
    /\ UNCHANGED storage

\* load_file_desktop(path, on_loaded)
LoadFileDesktop(path, fs) ==
    /\ InvokeAndReturn("load_file", path, <<>>, LoadFileSyncDesktop(path, fs),
                       DesktopEvents(path, fs))
    /\ UNCHANGED storage

\* A byte as the native side holds it (c_char).
U8AsChar(b) == IF b >= 128 THEN b - 256 ELSE b
\* A conversion that drops the sign instead of wrapping (abs in place of `as`).
CharAbs(c) == IF c < 0 THEN -c ELSE c
\* `*c as _`: a c_char back to u8.
CharAsU8(c) == c % 256

\* What a native android primitive leaves in android_asset: a null content
\* pointer, or the content and its length.
NullAsset == [null |-> TRUE, content |-> <<>>, content_length |-> 0]
Asset(bytes) ==
    [null |-> FALSE, content |-> [k \in DOMAIN bytes |-> U8AsChar(bytes[k])],
     content_length |-> Len(bytes)]
AssetAnswers == {NullAsset} \cup {Asset(c) : c \in Contents}
\* History: what a primitive left, -1 for a null pointer, else content_length.
Left(data) == IF data.null THEN -1 ELSE data.content_length

\* The copy out of the native memory: from_raw_parts(content, content_length)
\* mapped through `*c as _`.
CopyAsset(data) == [k \in 1..data.content_length |-> CharAsU8(data.content[k])]

\* load_asset_android's load_file_sync, after CString::new succeeded.
LoadAssetSync(data) ==
    IF ~data.null THEN Ok(CopyAsset(data)) ELSE Err("AndroidAssetLoadingError")

\* load_asset_android(path, on_loaded); data is what load_asset leaves.
LoadAssetAndroid(path, data) ==
    IF ~CStringNew(path).ok
    THEN Panic("NulError", "load_file", path, 0, <<Ev("load_file", 0, NewReq, 0)>>)
    ELSE /\ InvokeAndReturn("load_file", path, <<>>, LoadAssetSync(data),
                            <<Ev("load_asset", 0, NewReq, Left(data))>>)
         /\ UNCHANGED storage

\* A read_file_sync copied from load_file_sync with the error kind left as it was.
ReadFileSyncAssetKind(data) ==
    IF ~data.null THEN Ok(CopyAsset(data)) ELSE Err("AndroidAssetLoadingError")

\* read_internal_storage_android's read_file_sync, after CString::new succeeded.
ReadFileSync(data) ==
    IF ~data.null THEN Ok(CopyAsset(data)) ELSE Err("AndroidInternalStorageError")

\* native::android::read_internal_storage: what is stored under the path, or null.
ReadInternalStorage(path) ==
    IF storage[path] = Absent THEN NullAsset ELSE Asset(storage[path])

\* read_internal_storage_android(path, on_loaded)
ReadInternalStorageAndroid(path) ==
    IF ~CStringNew(path).ok
    THEN Panic("NulError", "read_file", path, 0, <<Ev("read_file", 0, NewReq, 0)>>)
    ELSE /\ InvokeAndReturn("read_file", path, <<>>, ReadFileSync(ReadInternalStorage(path)),
                            <<Ev("read_internal_storage", 0, NewReq,
                                 Left(ReadInternalStorage(path)))>>)
         /\ UNCHANGED storage

\* native::android::write_internal_storage: on success the bytes are stored
\* under the path; on failure nothing is.
WriteInternalStorage(path, data, success) ==
    IF success THEN [storage EXCEPT ![path] = data] ELSE storage

\* write_internal_storage_android(path, data, on_written); success is what
\* write_internal_storage answers.
WriteInternalStorageAndroid(path, data, success) ==
    IF ~CStringNew(path).ok
    THEN Panic("NulError", "save_file", path, 0, <<Ev("save_file", 0, NewReq, 0)>>)
    ELSE /\ InvokeAndReturn("save_file", path, data, Saved(success),
                            <<Ev("write_internal_storage", 0, NewReq, Len(data))>>)
         /\ storage' = WriteInternalStorage(path, data, success)

\* ios::load_file(path, on_loaded): one attempt on the main bundle, and the
\* callback is invoked with the bytes or with one of the two ios error kinds.
IosAnswers ==
    {Err("IOSAssetNoSuchFile"), Err("IOSAssetNoData")} \cup {Ok(c) : c \in Contents}
IosLoadFile(path, res) ==
    /\ InvokeAndReturn("load_file", path, <<>>, res, <<Ev("ios_load_file", 0, NewReq, 0)>>)
    /\ UNCHANGED storage

\* An unsupported operation that returns as if it had nothing to do.
UnimplementedNoop(op, path) ==
    /\ InvokeAndReturnDropped(op, path, <<>>, Saved(TRUE), <<>>)
    /\ UNCHANGED storage

\* unimplemented!(...) in save_file and read_file on every target but android.
Unimplemented(op, path) ==
    Panic("not implemented", op, path, 0, <<Ev(op, 0, NewReq, 0)>>)


(***************************************************************************)
(* Properties.                                                             *)
(***************************************************************************)
Reqs == DOMAIN calls
\* How often the callback of call r has been invoked.
Times(r) == Len(delivered[r])
Returned(r) == calls[r].st = "returned"
Panicked(r) == calls[r].st = "panicked"
\* file_loaded took the table entry of call r.
Consumed(r) == \E k \in DOMAIN trace : trace[k].ev = "remove" /\ trace[k].req = r
\* Call r is a wasm load_file that returned and whose entry is in the table.
Awaited(r) == target = "wasm" /\ Returned(r) /\ FILES[calls[r].id] = r
\* The file_loaded that took the entry of call r panicked before the callback.
FaultedInNote(r) == pc = "panicked" /\ cur.req = r /\ fault = "capacity overflow"

\* C1, as stated: the callback of every call is invoked exactly once, never
\* zero times and never twice, on every backend and every path.  (A deferred
\* request whose entry is still in the table is not counted as zero times.)
C1_ExactlyOnce ==
    \A r \in Reqs : Times(r) <= 1 /\ (~Awaited(r) => Times(r) = 1)

\* C1, amended: no callback is invoked twice; a call that panics never has
\* its callback invoked; a call that returns on a synchronous backend has had
\* it invoked exactly once; a wasm load_file that returned has it invoked
\* exactly once, by the file_loaded that takes its entry, unless that
\* file_loaded panics on the allocation.
C1_AtMostOnce ==
    \A r \in Reqs :
        /\ Times(r) <= 1
        /\ Panicked(r) => Times(r) = 0
        /\ (Returned(r) /\ target # "wasm") => Times(r) = 1
        /\ (Returned(r) /\ target = "wasm") =>
               (Times(r) = 1 <=> (Consumed(r) /\ ~FaultedInNote(r)))

\* C1's case: on wasm one callback was delivered by its notification, and
\* another call panicked without its callback being invoked.
C1_Witness ==
    /\ target = "wasm"
    /\ \E r \in Reqs : Consumed(r) /\ Times(r) = 1
    /\ \E r \in Reqs : Panicked(r) /\ Times(r) = 0


\* The step is a public call / a notification: the first event it records.
StepIs(name) == Len(trace') > Len(trace) /\ trace'[Len(trace) + 1].ev = name
\* file_loaded and the identifier it is called with.
NoteStep(i) == StepIs("file_loaded") /\ trace'[Len(trace) + 1].id = i
\* wasm::load_file got as far as fs_load_file, which answered j.
IssueStep(j) ==
    /\ target = "wasm"
    /\ StepIs("load_file")
    /\ Len(trace') >= Len(trace) + 2
    /\ trace'[Len(trace) + 2].ev = "fs_load_file"
    /\ trace'[Len(trace) + 2].id = j

\* C2, as stated: a wasm::load_file that issues a request with another
\* identifier j while file_loaded(i) is running the stored callback completes
\* normally and inserts j into the table.
C2_ReentrantIssue ==
    [][\A j \in IDs :
          (pc = "callback" /\ j # cur.id /\ IssueStep(j)) =>
              (pc' # "panicked" /\ FILES'[j] = NewReq /\ calls'[NewReq].st = "returned")]_vars

\* wasm load_file calls that returned and whose entry no file_loaded has taken.
InFlight == {r \in Reqs : target = "wasm" /\ Returned(r) /\ ~Consumed(r)}
\* The table holds an entry for id just before step k of the trace.
PendingAt(k, id) ==
    \E j \in 1..(k - 1) :
        /\ trace[j].ev = "insert" /\ trace[j].id = id
        /\ \A m \in (j + 1)..(k - 1) : ~(trace[m].ev = "remove" /\ trace[m].id = id)
\* The runtime never answered an identifier that was pending.
FreshIds ==
    \A k \in DOMAIN trace : trace[k].ev = "fs_load_file" => ~PendingAt(k, trace[k].id)
UniqueAndKept ==
    /\ \A r1, r2 \in InFlight : r1 # r2 => calls[r1].id # calls[r2].id
    /\ \A r \in InFlight : FILES[calls[r].id] = r

\* C3, as stated: no two pending requests share an identifier, and an insert
\* never replaces the entry of a request no notification has consumed.
C3_NoOverwrite == UniqueAndKept

\* C3, amended: the same, as long as fs_load_file never answers an
\* identifier that is still pending.
C3_NoOverwriteIfFresh == FreshIds => UniqueAndKept

\* C3's case: two requests are in flight under different identifiers.
C3_Witness ==
    /\ FreshIds
    /\ \E r1, r2 \in InFlight : r1 # r2 /\ FILES[calls[r1].id] = r1 /\ FILES[calls[r2].id] = r2

\* C4: file_loaded(i) for a pending i leaves i absent from the table; i stays
\* absent until a load_file is answered i again; file_loaded(i) for an absent i
\* panics with "Unknown file loaded!" and invokes no callback.
C4_DrainsAndFaults ==
    [][\A i \in IDs :
          /\ (NoteStep(i) /\ FILES[i] # NoCallback) => FILES'[i] = NoCallback
          /\ (NoteStep(i) /\ FILES[i] = NoCallback) =>
                 /\ pc' = "panicked"
                 /\ fault' = "Unknown file loaded!"
                 /\ delivered' = delivered
          /\ (FILES[i] = NoCallback /\ FILES'[i] # NoCallback) => IssueStep(i)]_vars

\* C4's case: a second file_loaded for the identifier of a delivered request
\* panicked, and that request's callback was invoked once.
C4_Witness ==
    /\ pc = "panicked"
    /\ fault = "Unknown file loaded!"
    /\ \E r \in Reqs : Consumed(r) /\ calls[r].id = cur.id /\ Times(r) = 1

\* C5: when fs_get_buffer_size answers -1 for i, the next thing file_loaded
\* does is invoke the callback stored for i, with Err(DownloadFailed), and
\* fs_take_buffer is not called for that request.
C5_SentinelMapping ==
    \A k \in DOMAIN trace :
        (trace[k].ev = "fs_get_buffer_size" /\ trace[k].n = -1) =>
            /\ k + 1 \in DOMAIN trace
            /\ trace[k + 1].ev = "callback"
            /\ trace[k + 1].req = trace[k].req
            /\ delivered[trace[k].req] = <<Err("DownloadFailed")>>
            /\ \A m \in DOMAIN trace :
                   ~(trace[m].ev = "fs_take_buffer" /\ trace[m].req = trace[k].req)

\* C5's case: a callback received Err(DownloadFailed).
C5_Witness ==
    \E r \in Reqs : Consumed(r) /\ delivered[r] = <<Err("DownloadFailed")>>


\* Where in the trace call r records the event named ev (0: nowhere).
At(ev, r) ==
    IF \E k \in DOMAIN trace : trace[k].ev = ev /\ trace[k].req = r
    THEN CHOOSE k \in DOMAIN trace : trace[k].ev = ev /\ trace[k].req = r
    ELSE 0

\* C6: read_file or save_file on a target other than android panics at once:
\* the call does not return, nothing is called before the panic, the callback
\* is not invoked, and the run ends there.
C6_UnsupportedIsFatal ==
    \A r \in Reqs :
        (target # "android" /\ calls[r].op \in {"read_file", "save_file"}) =>
            /\ Panicked(r)
            /\ Times(r) = 0
            /\ pc = "panicked"
            /\ fault = "not implemented"
            /\ r = Len(calls)
            /\ Len(trace) >= 2
            /\ trace[Len(trace) - 1] = Ev(calls[r].op, 0, r, 0)
            /\ trace[Len(trace)] = Ev("panic", 0, r, 0)

\* C6's case: save_file was called on a target without private storage.
C6_Witness ==
    /\ target \in {"desktop", "ios", "wasm"}
    /\ Len(calls) >= 2
    /\ calls[Len(calls)].op = "save_file"
    /\ Panicked(Len(calls))

\* C7: on desktop and android a call that has returned has had its callback
\* invoked, once, after the call began and before it returned.
C7_SyncInFrame ==
    \A r \in Reqs :
        (target \in {"desktop", "android"} /\ Returned(r)) =>
            /\ Times(r) = 1
            /\ At(calls[r].op, r) > 0
            /\ At(calls[r].op, r) < At("callback", r)
            /\ At("callback", r) < At("return", r)

\* C7's case: on android a load_file, a read_file and a save_file returned.
C7_Witness ==
    /\ target = "android"
    /\ \A op \in {"load_file", "read_file", "save_file"} :
           \E r \in Reqs : calls[r].op = op /\ Returned(r) /\ Times(r) = 1

\* C8: a wasm::load_file that returns has not invoked any callback, has left
\* its own in the table under the identifier fs_load_file answered, and has
\* changed no other entry.
C8_DeferredIssue ==
    [][\A j \in IDs :
          (IssueStep(j) /\ calls'[NewReq].st = "returned") =>
              /\ delivered'[NewReq] = <<>>
              /\ \A r \in Reqs : delivered'[r] = delivered[r]
              /\ FILES'[j] = NewReq
              /\ \A i \in IDs \ {j} : FILES'[i] = FILES[i]]_vars

\* C8's case: a wasm load_file has returned, its callback waits in the table.
C8_Witness ==
    \E r \in Reqs : Awaited(r) /\ Times(r) = 0 /\ calls[r].id = MaxId

\* The last call whose issuance was answered i (0: none).
LastIssued(i) ==
    LET S == {r \in Reqs : Returned(r) /\ calls[r].id = i}
    IN  IF S = {} THEN 0 ELSE CHOOSE r \in S : \A q \in S : q <= r
\* The result for what the runtime answers.
Resolved(rt) == IF rt.size = -1 THEN Err("DownloadFailed") ELSE Ok(rt.data)

\* C9: whatever else is pending or done, a file_loaded(i) that delivers
\* invokes the callback of the last load_file answered i, once, with the
\* result for what the runtime answers for i, and touches no other request.
C9_AnyOrder ==
    [][\A i \in IDs :
          (target = "wasm" /\ NoteStep(i) /\ pc' = "callback") =>
              LET r == LastIssued(i)
              IN  /\ r \in Reqs
                  /\ cur'.req = r
                  /\ delivered'[r] = Append(delivered[r], Resolved(cur'.rt))
                  /\ \A q \in Reqs \ {r} : delivered'[q] = delivered[q]
                  /\ \A j \in IDs \ {i} : FILES'[j] = FILES[j]]_vars

\* C9's case: two requests were in flight and the later one completed first.
C9_Witness ==
    \E r1, r2 \in Reqs :
        /\ r1 < r2
        /\ At("return", r2) < At("callback", r2)
        /\ At("callback", r2) < At("callback", r1)
        /\ Times(r1) = 1 /\ Times(r2) = 1

\* C10: when fs_get_buffer_size answers a size n >= 0, file_loaded allocates
\* n bytes, calls fs_take_buffer with that buffer and n, and invokes the
\* callback with Ok of n bytes, the bytes the runtime transferred.
C10_ExactBuffer ==
    (pc = "callback" /\ cur.rt.size >= 0) =>
        LET n == cur.rt.size
            k == Len(trace)
        IN  /\ delivered[cur.req] = <<Ok(cur.rt.data)>>
            /\ Len(delivered[cur.req][1].bytes) = n
            /\ k >= 3
            /\ trace[k] = Ev("callback", cur.id, cur.req, 0)
            /\ trace[k - 1] = Ev("fs_take_buffer", cur.id, cur.req, n)
            /\ trace[k - 2] = Ev("alloc", cur.id, cur.req, n)

\* C10's case: a callback is running with the two bytes the runtime transferred.
C10_Witness ==
    /\ pc = "callback"
    /\ cur.rt.size = 2
    /\ delivered[cur.req] = <<Ok(<<65, 66>>)>>

\* C10's other case: an empty transfer.
C10_WitnessEmpty ==
    /\ pc = "callback"
    /\ cur.rt.size = 0
    /\ delivered[cur.req] = <<Ok(<<>>)>>


\* The error kind android delivers when the primitive of op leaves a null pointer.
AndroidPrimitive(op) == IF op = "load_file" THEN "load_asset" ELSE "read_internal_storage"
AndroidKind(op) ==
    IF op = "load_file" THEN "AndroidAssetLoadingError" ELSE "AndroidInternalStorageError"

\* C11: on android a load_file whose asset primitive leaves a null pointer
\* delivers Err(AndroidAssetLoadingError), a read_file whose storage primitive
\* leaves one delivers Err(AndroidInternalStorageError), a non-null answer
\* delivers Ok, and the call asks its own primitive once and nothing else.
C11_KindPerBackend ==
    \A r \in Reqs :
        (target = "android" /\ Returned(r) /\ calls[r].op \in {"load_file", "read_file"}) =>
            LET k == At(AndroidPrimitive(calls[r].op), r)
            IN  /\ k = At(calls[r].op, r) + 1
                /\ At("callback", r) = k + 1
                /\ trace[k].n = -1 => delivered[r] = <<Err(AndroidKind(calls[r].op))>>
                /\ trace[k].n >= 0 =>
                       /\ Len(delivered[r]) = 1
                       /\ delivered[r][1].ok
                       /\ Len(delivered[r][1].bytes) = trace[k].n

\* C11's case: both android error kinds were delivered, each by its own call.
C11_Witness ==
    /\ target = "android"
    /\ \E r \in Reqs :
           calls[r].op = "load_file" /\ delivered[r] = <<Err("AndroidAssetLoadingError")>>
    /\ \E r \in Reqs :
           calls[r].op = "read_file" /\ delivered[r] = <<Err("AndroidInternalStorageError")>>


\* The last save_file on the path of call r that returned before r (0: none).
LastSave(r) ==
    LET S == {q \in 1..(r - 1) :
                 calls[q].op = "save_file" /\ calls[q].path = calls[r].path /\ Returned(q)}
    IN  IF S = {} THEN 0 ELSE CHOOSE q \in S : \A q2 \in S : q2 <= q

\* C12: on android, when the last save_file(P, B) before a read_file(P)
\* delivered true, the read_file delivers Ok(B), byte for byte.
C12_RoundTrip ==
    \A r \in Reqs :
        (/\ target = "android"
         /\ calls[r].op = "read_file"
         /\ Returned(r)
         /\ LastSave(r) > 0
         /\ delivered[LastSave(r)] = <<Saved(TRUE)>>) =>
            delivered[r] = <<Ok(calls[LastSave(r)].data)>>

\* C12's case: a byte above 127 was saved over an earlier save and read back.
C12_Witness ==
    \E r \in Reqs :
        /\ target = "android"
        /\ calls[r].op = "read_file"
        /\ LastSave(r) = 2
        /\ calls[1].op = "save_file" /\ calls[1].data = <<65, 66>>
        /\ calls[2].data = <<200>>
        /\ delivered[r] = <<Ok(<<200>>)>>

\* C12's other case: the empty sequence was saved and read back.
C12_WitnessEmpty ==
    \E r \in Reqs :
        /\ target = "android"
        /\ calls[r].op = "read_file"
        /\ LastSave(r) > 0
        /\ delivered[LastSave(r)] = <<Saved(TRUE)>>
        /\ calls[LastSave(r)].data = <<>>
        /\ delivered[r] = <<Ok(<<>>)>>


\* C13: file_loaded(i) for an identifier with no entry panics with "Unknown
\* file loaded!": no callback is invoked, neither fs_get_buffer_size nor
\* fs_take_buffer is called, and the table is left as it was.
C13_UnknownIsFatal ==
    [][\A i \in IDs :
          (NoteStep(i) /\ FILES[i] = NoCallback) =>
              /\ pc' = "panicked"
              /\ fault' = "Unknown file loaded!"
              /\ delivered' = delivered
              /\ FILES' = FILES
              /\ trace' = trace \o <<Ev("file_loaded", i, 0, 0), Ev("panic", i, 0, 0)>>]_vars

\* C13's case: a notification came for an identifier that was never issued
\* while another request was pending, and that entry is still in the table.
C13_Witness ==
    /\ pc = "panicked"
    /\ fault = "Unknown file loaded!"
    /\ \A r \in Reqs : calls[r].id # cur.id
    /\ \E r \in Reqs : Awaited(r)


\* C14: the table changes in two ways only: wasm::load_file puts its
\* callback under the identifier it was answered, and file_loaded(j) takes
\* the entry of j out.  No step changes the entry of any other identifier,
\* and an identifier leaves the table only by file_loaded for it.
C14_TableFrame ==
    [][\A j \in IDs :
          /\ FILES'[j] # FILES[j] =>
                 \/ IssueStep(j) /\ FILES'[j] = NewReq
                 \/ NoteStep(j) /\ FILES'[j] = NoCallback
          /\ (FILES[j] # NoCallback /\ FILES'[j] = NoCallback) => NoteStep(j)]_vars

\* C14's case: an entry is still in the table after another identifier was
\* issued and notified behind it.
C14_Witness ==
    \E r, q \in Reqs :
        /\ Awaited(r)
        /\ Consumed(q)
        /\ At("return", r) < At("insert", q)
        /\ pc = "idle"


\* C15: while file_loaded(i) runs the stored callback, i has no entry in the
\* table, and the steps before the callback were, in this order: the removal
\* of the entry, fs_get_buffer_size, and (unless it answered -1, and then not
\* at all) fs_take_buffer.
C15_StepOrder ==
    pc = "callback" =>
        LET r == cur.req
        IN  /\ FILES[cur.id] = NoCallback
            /\ At("remove", r) > 0
            /\ At("remove", r) < At("fs_get_buffer_size", r)
            /\ At("fs_get_buffer_size", r) < At("callback", r)
            /\ cur.rt.size = -1 => At("fs_take_buffer", r) = 0
            /\ cur.rt.size # -1 =>
                   /\ At("fs_get_buffer_size", r) < At("fs_take_buffer", r)
                   /\ At("fs_take_buffer", r) < At("callback", r)

\* C15's case: a callback is running with a copied buffer while another
\* request is still pending.
C15_Witness ==
    /\ pc = "callback"
    /\ cur.rt.size = 1
    /\ At("fs_take_buffer", cur.req) > 0
    /\ \E q \in Reqs : Awaited(q)


\* wasm::load_file returned from call number r, the request issued.
Issued(r) == IF r \in Reqs THEN target = "wasm" /\ Returned(r) ELSE FALSE
\* The callback of call number r has been invoked.
Invoked(r) == IF r \in Reqs THEN Times(r) = 1 ELSE FALSE

\* C16, as stated: with a runtime that answers only identifiers that are not
\* pending and notifies once for every accepted request, the callback of every
\* request wasm::load_file issued is eventually invoked, and the table is
\* empty whenever no request is in flight.
C16_EventuallyDelivered ==
    /\ \A r \in 1..MaxCalls : [](Issued(r) => <>Invoked(r))
    /\ [](InFlight = {} => Keys(FILES) = {})

\* The only behaviours in which C16 fails are those that end in a panic.
C16_DeliveredUnlessPanicked == <>(pc = "panicked") \/ C16_EventuallyDelivered


\* What read_to_end reported to desktop call r (0: it was not called).
ReadAt(r) == At("read_to_end", r)
\* File::open failed, or read_to_end failed, in desktop call r.
IoFailed(r) ==
    \/ trace[At("open", r)].n = 0
    \/ IF ReadAt(r) = 0 THEN FALSE ELSE trace[ReadAt(r)].n = -1

\* C17: a desktop load_file delivers Err(IOError), and no bytes, when File::open
\* fails or read_to_end fails (whatever it had appended by then); it delivers
\* Ok(bytes) only when read_to_end succeeded, and bytes is then everything it
\* read.
C17_AllOrNothing ==
    \A r \in Reqs :
        (target = "desktop" /\ calls[r].op = "load_file") =>
            /\ At("open", r) > 0
            /\ IoFailed(r) => delivered[r] = <<Err("IOError")>>
            /\ ~IoFailed(r) =>
                   /\ ReadAt(r) > 0
                   /\ delivered[r] =
                          <<Ok(CHOOSE c \in Contents : Len(c) = trace[ReadAt(r)].n)>>

\* C17's case: read_to_end failed after it had appended two bytes.
C17_Witness ==
    \E r \in Reqs :
        /\ target = "desktop"
        /\ ReadAt(r) > 0
        /\ trace[ReadAt(r)].id = 2
        /\ trace[ReadAt(r)].n = -1
        /\ delivered[r] = <<Err("IOError")>>

\* C17's other case: the whole content was read and delivered.
C17_WitnessWhole ==
    \E r \in Reqs :
        /\ target = "desktop"
        /\ ReadAt(r) > 0
        /\ trace[ReadAt(r)].n = 2
        /\ delivered[r] = <<Ok(<<65, 66>>)>>


\* The places in the trace where fs_get_buffer_size answered.
SizeQueries == {k \in DOMAIN trace : trace[k].ev = "fs_get_buffer_size"}
\* The length file_len stands for as an unsigned word.
Wrapped(file_len) == IF file_len < 0 THEN file_len + Pow2(WordBits) ELSE file_len

\* C18: when fs_get_buffer_size answers -1, file_loaded invokes the callback
\* next, with Err(DownloadFailed), and allocates nothing; when it answers any
\* other value, negative ones included, file_loaded next allocates a buffer of
\* that value taken as an unsigned word (a negative value plus 2^w) and the
\* callback does not get Err(DownloadFailed).
C18_OnlyMinusOne ==
    \A k \in SizeQueries :
        LET r == trace[k].req
            file_len == trace[k].n
        IN  /\ file_len = -1 =>
                /\ trace[k + 1].ev = "callback"
                /\ delivered[r] = <<Err("DownloadFailed")>>
            /\ file_len # -1 =>
                /\ trace[k + 1].ev = "alloc"
                /\ trace[k + 1].n = Wrapped(file_len)
                /\ Err("DownloadFailed") \notin {delivered[r][m] : m \in DOMAIN delivered[r]}

\* C18's case: the size query answered -2 and the buffer length asked for was
\* 2^w - 2.
C18_Witness ==
    \E k \in SizeQueries :
        /\ trace[k].n = -2
        /\ trace[k + 1].ev = "alloc"
        /\ trace[k + 1].n = Pow2(WordBits) - 2

\* C18's other case: the size query answered -1.
C18_WitnessSentinel ==
    \E k \in SizeQueries : trace[k].n = -1 /\ delivered[trace[k].req] = <<Err("DownloadFailed")>>


\* The wasm::load_file calls that ran to their end.
Completed == {r \in Reqs : target = "wasm" /\ calls[r].op = "load_file" /\ Returned(r)}
\* The file_loaded calls that found an entry under their identifier.
Found == {k \in DOMAIN trace : trace[k].ev = "remove"}

\* C19: as long as fs_load_file has only answered identifiers that were not
\* pending, the table holds as many entries as wasm::load_file calls have
\* completed minus the file_loaded calls that found their entry; before the
\* first insertion the table is empty.
C19_TableSize ==
    /\ FreshIds => Cardinality(Keys(FILES)) = Cardinality(Completed) - Cardinality(Found)
    /\ Completed = {} => Keys(FILES) = {}

\* C19's case: three calls completed, one notification found its entry, two
\* entries are in the table.
C19_Witness ==
    /\ FreshIds
    /\ Cardinality(Completed) = 3
    /\ Cardinality(Found) = 1
    /\ Cardinality(Keys(FILES)) = 2


\* The path has a NUL byte in it.
HasNul(path) == \E k \in DOMAIN path : path[k] = 0
\* This step is a public call whose path has a NUL byte in it.
NulCall == Len(calls') = Len(calls) + 1 /\ HasNul(calls'[Len(calls) + 1].path)

\* C20: a call with a NUL byte in its path panics with a NulError on wasm
\* (load_file) and on android (every operation) before anything else happens:
\* no primitive is called, the table and the storage are unchanged, and the
\* callback is not invoked.  On desktop load_file returns after invoking the
\* callback once, with Err(IOError).
C20_InteriorNul ==
    [][NulCall =>
          LET r == Len(calls) + 1
              c == calls'[Len(calls) + 1]
          IN  /\ ((target = "wasm" /\ c.op = "load_file") \/ target = "android") =>
                    /\ c.st = "panicked"
                    /\ pc' = "panicked"
                    /\ fault' = "NulError"
                    /\ trace' = trace \o <<Ev(c.op, 0, r, 0), Ev("panic", 0, r, 0)>>
                    /\ FILES' = FILES
                    /\ storage' = storage
                    /\ delivered'[r] = <<>>
              /\ (target = "desktop" /\ c.op = "load_file") =>
                    /\ c.st = "returned"
                    /\ pc' = pc
                    /\ delivered'[r] = <<Err("IOError")>>]_vars

\* C20's case on wasm: load_file with a NUL byte in the path has panicked
\* while another request was pending.
C20_Witness ==
    \E r, q \in Reqs :
        /\ target = "wasm"
        /\ HasNul(calls[r].path)
        /\ Panicked(r)
        /\ fault = "NulError"
        /\ Awaited(q)

\* C20's case on android: save_file with a NUL byte in the path has panicked.
C20_WitnessAndroid ==
    \E r \in Reqs :
        /\ target = "android"
        /\ calls[r].op = "save_file"
        /\ HasNul(calls[r].path)
        /\ Panicked(r)

\* C20's case on desktop: the callback got Err(IOError) for such a path.
C20_WitnessDesktop ==
    \E r \in Reqs :
        /\ target = "desktop"
        /\ HasNul(calls[r].path)
        /\ Returned(r)
        /\ delivered[r] = <<Err("IOError")>>

Init ==
    /\ target \in Targets
    /\ FILES = [i \in IDs |-> NoCallback]
    /\ borrowed = FALSE
    /\ pc = "idle"
    /\ fault = ""
    /\ cur = NoNote
    /\ calls = <<>>
    /\ delivered = <<>>
    /\ trace = <<>>
    /\ storage = [p \in Paths |-> Absent]

(***************************************************************************)
(* The public calls; the cfg attributes leave one backend per target.  On  *)
(* wasm a public call can also be made by a stored callback while          *)
(* file_loaded runs it.                                                    *)
(***************************************************************************)
\* load_file(path, on_loaded)
LoadFile ==
    /\ pc \in {"idle", "callback"}
    /\ CanCall
    /\ \E path \in Paths :
        \/ /\ target = "wasm"
           /\ \E file_id \in IDs : WasmLoadFile(path, file_id)
        \/ /\ target = "android"
           /\ \E data \in AssetAnswers : LoadAssetAndroid(path, data)
        \/ /\ target = "ios"
           /\ \E res \in IosAnswers : IosLoadFile(path, res)
        \/ /\ target = "desktop"
           /\ \E fs \in FsAnswers : LoadFileDesktop(path, fs)

\* save_file(path, data, on_saved)
SaveFile ==
    /\ pc \in {"idle", "callback"}
    /\ CanCall
    /\ \E path \in Paths, data \in Contents :
        \/ /\ target = "android"
           /\ \E success \in BOOLEAN : WriteInternalStorageAndroid(path, data, success)
        \/ /\ target # "android"
           /\ Unimplemented("save_file", path)

\* read_file(path, on_loaded)
ReadFile ==
    /\ pc \in {"idle", "callback"}
    /\ CanCall
    /\ \E path \in Paths :
        \/ /\ target = "android"
           /\ ReadInternalStorageAndroid(path)
        \/ /\ target # "android"
           /\ Unimplemented("read_file", path)

\* The runtime calls the notification entry point; the module is not running.
Notify ==
    /\ target = "wasm"
    /\ pc = "idle"
    /\ CanNotify
    /\ \E file_id \in IDs, rt \in RuntimeAnswers : FileLoaded(file_id, rt)

Next ==
    \/ LoadFile
    \/ SaveFile
    \/ ReadFile
    \/ Notify
    \/ CallbackReturn

Spec == Init /\ [][Next]_vars

(***************************************************************************)
(* The deferred bridge with a runtime that keeps its side of the contract: *)
(* fs_load_file answers identifiers that have no entry in the table,       *)
(* file_loaded is called for pending identifiers only and for every one of *)
(* them, and fs_get_buffer_size answers -1 or the length of the content.   *)
(* The application's callbacks return.                                     *)
(***************************************************************************)
TrustedAnswers == {rt \in RuntimeAnswers : rt.size >= -1}

\* load_file(path, on_loaded) on wasm, from the application or from a callback.
TrustedLoadFile ==
    /\ target = "wasm"
    /\ pc \in {"idle", "callback"}
    /\ CanCall
    /\ \E file_id \in IDs :
           /\ FILES[file_id] = NoCallback
           /\ WasmLoadFile(PathA, file_id)

\* The runtime calls file_loaded(file_id) for a request it accepted.
TrustedNotify(file_id) ==
    /\ target = "wasm"
    /\ pc = "idle"
    /\ FILES[file_id] # NoCallback
    /\ \E rt \in TrustedAnswers : FileLoaded(file_id, rt)

InitTrusted == Init /\ target = "wasm"

NextTrusted ==
    \/ TrustedLoadFile
    \/ \E file_id \in IDs : TrustedNotify(file_id)
    \/ CallbackReturn

SpecTrusted ==
    /\ InitTrusted
    /\ [][NextTrusted]_vars
    /\ \A file_id \in IDs : WF_vars(TrustedNotify(file_id))
    /\ WF_vars(CallbackReturn)

====
